---- MODULE Spec2Model ----
(***************************************************************************)
(* The p2p wire protocol of go-nebulas (components/net/p2p): the frame     *)
(* codec, the per-connection receive loop (streamHandler), the handshake   *)
(* (Hello / Bye), route discovery (SYNCROUTE / SYNCROUTEREPLY), Broadcast  *)
(* and Stop, as a state machine over a small network of nodes.             *)
(*                                                                         *)
(* The peers in live run the code of net_service.go and broadcast.go.  The *)
(* other peers are outside the program's control: they open streams to the *)
(* live nodes and write arbitrary frames on them.                          *)
(***************************************************************************)
EXTENDS Integers, Sequences, FiniteSets, TLC

\* ------------------------------------------------------------------ bounds
\* streams opened
MaxStreams == 2
\* frames written and connections broken by peers outside the program
MaxEnv == 2
\* frames of an outside peer waiting unread at one endpoint
MaxInFlight == 1
\* calls of the node's operations
MaxCalls == 2
MaxBytes == 2

\* ------------------------------------------------------- program constants
HELLO == "hello"
OK == "ok"
BYE == "bye"
SYNCROUTE == "syncroute"
NEWBLOCK == "newblock"
SYNCROUTEREPLY == "resyncroute"
MagicNumber == "NEB1"

\* Connection status (node.conn values); "none" is a key absent from the map.
S_OK == "S_OK"
S_NC == "S_NC"

\* peerstore expiry classes: no entry (or TTL 0), TempAddrTTL, PermanentAddrTTL
TTLNone == "none"
TempAddrTTL == "temp"
PermanentAddrTTL == "perm"

\* --------------------------------------------------------------- universe
Peers == {"A", "B", "C"}
Nodes == {"A", "B"}
AddrOf(p) == "/ip4/" \o p
Addrs == {AddrOf(p) : p \in Peers}
StreamIds == 1..MaxStreams
NoStream == 0
Sides == {"o", "a"}

\* node.chainID and node.version of the nodes' configuration
ChainID(n) == 7
Version(n) == 1

\* -------------------------------------------------------------- payloads
\* A payload is its text, or (for a peer-info list) the list that its JSON
\* text encodes.
Text(s) == [str |-> s, peers |-> <<>>]
PeerList(l) == [str |-> "json", peers |-> l]
PeerInfo(p, as) == [ID |-> p, Addrs |-> as]
BlockData == Text("block")
JunkData == Text("junk")

StrCode(s) ==
  CASE s = HELLO -> 11
    [] s = OK -> 23
    [] s = SYNCROUTE -> 37
    [] s = "json" -> 41
    [] s = "block" -> 53
    [] s = "junk" -> 67
    [] OTHER -> 79

PeerCode(p) ==
  CASE p = "A" -> 1
    [] p = "B" -> 2
    [] OTHER -> 3

RECURSIVE ListCode(_)
ListCode(l) ==
  IF l = <<>> THEN 0
  ELSE (PeerCode(Head(l).ID) + 5 * Len(Head(l).Addrs) + 7 * ListCode(Tail(l))) % 65536

\* crc32.ChecksumIEEE over the payload bytes (a checksum of fixed width; 16 bits here)
ChecksumIEEE(data) == (StrCode(data.str) * 1000 + ListCode(data.peers)) % 65536

\* proto.Unmarshal(data, pb) succeeds
UnmarshalOK(data) == data.str = "block"

\* json.Unmarshal(data, &sample): the decoded list, empty when data is no list
JsonDecode(data) == IF data.str = "json" THEN data.peers ELSE <<>>

\* ------------------------------------------------------------ frame codec
\* buildHeader: the 32-byte header, field by field (short: FALSE, all of the
\* payload follows the header on the wire)
buildHeader(chainID, msgName, version, data, dataChecksum) ==
  [magic |-> MagicNumber, chainID |-> chainID, version |-> version,
   msgName |-> msgName, data |-> data, dataChecksum |-> dataChecksum,
   short |-> FALSE]

buildData(n, data, msgName) ==
  buildHeader(ChainID(n), msgName, Version(n), data, ChecksumIEEE(data))

verifyHeader(n, magicNumber, chainID, version) ==
  /\ magicNumber = MagicNumber
  /\ ChainID(n) = chainID
  /\ Version(n) = version

\* ------------------------------------------------------ the frame, byte by byte
\* MagicNumber as the bytes 0x4e 0x45 0x42 0x31
MagicBytes == <<78, 69, 66, 49>>

\* byteutils.FromUint32 / byteutils.Uint32: four bytes, the most significant first
FromUint32(v) == <<(v \div 16777216) % 256, (v \div 65536) % 256, (v \div 256) % 256, v % 256>>
Uint32(b) == ((b[1] * 256 + b[2]) * 256 + b[3]) * 256 + b[4]

\* the Go slice b[i:j]
Slice(b, i, j) == SubSeq(b, i + 1, j)

\* copy(dst[off:], src): as many bytes of src as dst has room for
Copy(dst, off, src) ==
  [i \in 1..Len(dst) |-> IF i > off /\ i - off <= Len(src) THEN src[i - off] ELSE dst[i]]

\* bytes.IndexByte(b, c): the index of the first c in b, -1 when there is none
IndexByte(b, c) ==
  IF \E i \in 1..Len(b) : b[i] = c
    THEN (CHOOSE i \in 1..Len(b) : b[i] = c /\ \A j \in 1..(i - 1) : b[j] # c) - 1
    ELSE -1

\* crc32.ChecksumIEEE over bytes: a checksum of fixed width that depends on
\* every byte and its position (16 bits here, carried in four bytes)
RECURSIVE Crc(_)
Crc(b) ==
  IF b = <<>> THEN 0
  ELSE (31 * Crc(SubSeq(b, 1, Len(b) - 1)) + b[Len(b)] + 1) % 65536

\* buildHeader: the 32 bytes of the header
metaHeader(chainID, msgName, version, dataLength, dataChecksum) ==
  LET h0 == [i \in 1..32 |-> 0]
      h1 == Copy(h0, 0, MagicBytes)
      h2 == Copy(h1, 4, FromUint32(chainID))
      h3 == Copy(h2, 11, <<version>>)
      h4 == Copy(h3, 12, msgName)
      h5 == Copy(h4, 24, FromUint32(dataLength))
  IN Copy(h5, 28, FromUint32(dataChecksum))

\* buildData on a node of this chain id and version: header, header checksum, payload
buildDataBytes(chainID, version, data, msgName) ==
  LET h == metaHeader(chainID, msgName, version, Len(data), Crc(data))
  IN h \o FromUint32(Crc(h)) \o data

msgNameStr_WholeField(msgName) == msgName

\* msgName[0:bytes.IndexByte(msgName, 0)]; taken only when the index is not -1
msgNameStr(msgName) == Slice(msgName, 0, IndexByte(msgName, 0))

\* node.verifyHeader on a node of configuration chainID, version
verifyHeaderBytes(cfgChainID, cfgVersion, magicNumber, chainID, version) ==
  /\ magicNumber = MagicBytes
  /\ cfgChainID = Uint32(chainID)
  /\ <<cfgVersion>> = version

\* one turn of the receive loop of a node of configuration cfgChainID,
\* cfgVersion over the bytes in: how the turn ends and the fields it sliced out
ReadFrame(cfgChainID, cfgVersion, in) ==
  LET dataHeader == Slice(in, 0, 36)
      magicNumber == Slice(dataHeader, 0, 4)
      chainID == Slice(dataHeader, 4, 8)
      version == <<dataHeader[12]>>
      msgName == Slice(dataHeader, 12, 24)
      dataLength == Slice(dataHeader, 24, 28)
      dataChecksum == Slice(dataHeader, 28, 32)
      data == Slice(in, 36, 36 + Uint32(dataLength))
      none == [end |-> "", chainID |-> 0, version |-> 0, msgName |-> <<>>, data |-> <<>>]
      hdr == [none EXCEPT !.chainID = Uint32(chainID), !.version = version[1],
                          !.msgName = msgNameStr(msgName)]
  IN IF Len(in) < 36 THEN [none EXCEPT !.end = "hdrerr"]
     ELSE IF IndexByte(msgName, 0) = -1 THEN [none EXCEPT !.end = "panic"]
     ELSE IF ~verifyHeaderBytes(cfgChainID, cfgVersion, magicNumber, chainID, version)
       THEN [hdr EXCEPT !.end = "mismatch"]
     ELSE IF Len(in) - 36 < Uint32(dataLength) THEN [hdr EXCEPT !.end = "dataerr"]
     ELSE IF Crc(data) # Uint32(dataChecksum) THEN [hdr EXCEPT !.end = "checksum"]
     ELSE [hdr EXCEPT !.end = "ok", !.data = data]

\* ------------------------------------------------------------------ state
VARIABLES
  node,        \* per node, the Node struct: conn, stream, routeTable, peerstore
  registered,  \* per node: the stream handler is installed on the host
  net,         \* the streams opened so far: endpoints, open flag, bytes in flight
  loops,       \* per stream and side: the receive loop goroutine of that endpoint
  stopPc,      \* per node: where a Stop call stands
  dispatcher,  \* per node: the Dispatcher (stopped flag, messages put)
  sendTasks,   \* per node and peer: SendMsg goroutines started by Broadcast, not yet run
  crashed,     \* per node: the process died of an unrecovered panic
  live,        \* the peers that run this program; the others are outside it
  calls,       \* API calls made so far
  envEvents,   \* frames written and connections broken by the outside so far
  launch,      \* per node: node.running and where the Launch call stands
  access,      \* per node: the tasks that are reading or writing node.stream / node.conn
  wire         \* a frame on its way through the codec: input, bytes written, fields read

vars == <<node, registered, net, loops, stopPc, dispatcher, sendTasks, crashed,
          live, calls, envEvents, launch, access, wire>>

\* no frame is followed through the codec
NoWire == [pc |-> "none"]

\* config.BootNodes: the peers whose addresses a node is configured with
BootNodes(n) == Nodes \ {n}

NoLoop == [pc |-> "none", todo |-> <<>>, exit |-> ""]

\* a node on which Launch was never called
NotLaunched ==
  [running |-> FALSE, pc |-> "idle", pending |-> {}, hello |-> {}, discovery |-> 0, errs |-> 0]

NewNode(n) ==
  [conn |-> [a \in Addrs |-> "none"],
   stream |-> [a \in Addrs |-> NoStream],
   routeTable |-> {},
   peerstore |-> [p \in Peers |-> [a \in Addrs |->
                    IF p \in BootNodes(n) /\ a = AddrOf(p) THEN PermanentAddrTTL ELSE TTLNone]]]

\* the nodes of running run the program, those of handlers have installed their
\* stream handler already
InitWith(running, handlers) ==
  /\ live = running
  /\ node = [n \in Nodes |-> NewNode(n)]
  /\ registered = [n \in Nodes |-> n \in handlers]
  /\ net = <<>>
  /\ loops = [s \in StreamIds |-> [d \in Sides |-> NoLoop]]
  /\ stopPc = [n \in Nodes |-> "idle"]
  /\ dispatcher = [n \in Nodes |-> [stopped |-> FALSE, msgs |-> {}]]
  /\ sendTasks = [n \in Nodes |-> [p \in Peers |-> 0]]
  /\ crashed = [n \in Nodes |-> FALSE]
  /\ calls = 0
  /\ envEvents = 0
  /\ launch = [n \in Nodes |-> NotLaunched]
  /\ access = [n \in Nodes |-> {}]
  /\ wire = NoWire

\* one node, every other peer outside the program
Init == InitWith({"A"}, {})

\* ------------------------------------------------------------- collaborators
\* peerstore.PeerInfo(pid).Addrs
PeerAddrs(nd, pid) == {a \in Addrs : nd.peerstore[pid][a] # TTLNone}

\* peerstore.AddAddr(pid, addr, ttl): an entry is never shortened
AddAddr(nd, pid, addr, ttl) ==
  IF ttl = TempAddrTTL /\ nd.peerstore[pid][addr] = PermanentAddrTTL THEN nd
  ELSE [nd EXCEPT !.peerstore[pid][addr] = ttl]

\* peerstore.SetAddrs(pid, addrs, 0): the entries of these addresses are cleared
ClearAddrs(nd, pid, addrs) ==
  [nd EXCEPT !.peerstore[pid] = [a \in Addrs |-> IF a \in addrs THEN TTLNone ELSE @[a]]]

\* routeTable.Update(pid) / routeTable.Remove(pid)
Update(nd, pid) == [nd EXCEPT !.routeTable = @ \cup {pid}]
Remove(nd, pid) == [nd EXCEPT !.routeTable = @ \ {pid}]

\* the endpoints of a stream
Owner(nt, s, d) == IF d = "o" THEN nt[s].from ELSE nt[s].to
Remote(nt, s, d) == IF d = "o" THEN nt[s].to ELSE nt[s].from
Other(d) == IF d = "o" THEN "a" ELSE "o"
SideOf(nt, s, n) == IF nt[s].from = n THEN "o" ELSE "a"

\* Write(stream, data) returns no error
WriteOK(nt, h) == h # NoStream /\ nt[h].open

\* the stream after node n wrote frame f on its handle h: the frame is in
\* flight to the other endpoint (a peer outside the program consumes it)
Write(nt, n, h, f) ==
  LET d == Other(SideOf(nt, h, n)) IN
  IF Owner(nt, h, d) \in live THEN [nt EXCEPT ![h].q[d] = Append(@, f)] ELSE nt

\* ---------------------------------------------------------------- Bye
Bye_EmptiesTable(nd, pid, addrs) ==
  [ClearAddrs(nd, pid, {addrs[i] : i \in 1..Len(addrs)}) EXCEPT
     !.routeTable = {}, !.conn[addrs[1]] = S_NC]

\* Bye(pid, addrs): the addresses leave the address book (TTL 0), the peer
\* leaves the route table, the first address is Disconnected
Bye(nd, pid, addrs) ==
  LET nd1 == ClearAddrs(nd, pid, {addrs[i] : i \in 1..Len(addrs)})
      nd2 == Remove(nd1, pid)
  IN [nd2 EXCEPT !.conn[addrs[1]] = S_NC]

\* -------------------------------------------------------------- Hello
\* host.NewStream(ctx, pid, ProtocolID) can succeed: a host does not dial
\* itself, the remote host must have the protocol handler installed, and the
\* peer must be dialable (a known address, or a connection already up)
CanDial(n, nd, nt, pid) ==
  /\ pid # n
  /\ Len(nt) < MaxStreams
  /\ pid \in live => registered[pid] /\ ~crashed[pid]
  /\ \/ PeerAddrs(nd, pid) # {}
     \/ \E s \in 1..Len(nt) : nt[s].open /\ {nt[s].from, nt[s].to} = {n, pid}

NewStreamRec(n, pid, isOpen) ==
  [from |-> n, to |-> pid, open |-> isOpen,
   q |-> [d \in Sides |-> <<>>], hdrOnly |-> [d \in Sides |-> FALSE]]

\* streamHandler(s): the receive loop of endpoint d of stream s is started
streamHandler(lp, s, d) == [lp EXCEPT ![s][d].pc = "select"]

\* Hello(pid) by node n in node state nd; outcome is NewStream's: "fail" (an
\* error), "ok", or "reset" (a stream that breaks before the first write).
\* The result: the error returned ("nil" for none) and the state left.
Hello(n, nd, nt, lp, pid, outcome) ==
  LET addrs == PeerAddrs(nd, pid)
      s == Len(nt) + 1
      opened == Append(nt, NewStreamRec(n, pid, outcome = "ok"))
      \* the remote host runs its handler on the new stream
      lp1 == IF pid \in live THEN streamHandler(lp, s, "a") ELSE lp
  IN IF outcome = "fail"
       THEN [err |-> "dial", node |-> Remove(ClearAddrs(nd, pid, addrs), pid),
             net |-> nt, loops |-> lp]
     ELSE IF addrs = {}
       THEN [err |-> "wrong pid addrs", node |-> nd, net |-> opened, loops |-> lp1]
     ELSE IF ~WriteOK(opened, s)
       THEN [err |-> "write", node |-> nd, net |-> opened, loops |-> lp1]
     ELSE [err |-> "nil", node |-> nd,
           net |-> Write(opened, n, s, buildData(n, Text(HELLO), HELLO)),
           loops |-> streamHandler(lp1, s, "o")]

HelloOutcomes(n, nd, nt, pid) ==
  IF CanDial(n, nd, nt, pid) THEN {"fail", "ok", "reset"} ELSE {"fail"}

\* ------------------------------------------------------- the receive loop
\* the loop of endpoint d of stream s runs on a live node and stands at pc
LoopAt(s, d, pc) ==
  /\ s \in 1..Len(net)
  /\ Owner(net, s, d) \in live
  /\ ~crashed[Owner(net, s, d)]
  /\ loops[s][d].pc = pc

\* break HandleMsg / return: the loop goroutine ends
Exit(lp, s, d, why) == [lp EXCEPT ![s][d] = [pc |-> "done", todo |-> <<>>, exit |-> why]]
Goto(lp, s, d, pc) == [lp EXCEPT ![s][d].pc = pc]

\* the frame at the head of the endpoint's input is consumed, header and payload
Pop(nt, s, d) == [nt EXCEPT ![s].q[d] = Tail(@)]
PopHeader_AndPayload(nt, s, d) == [nt EXCEPT ![s].q[d] = Tail(@), ![s].hdrOnly[d] = TRUE]
\* only the 36 header bytes of the frame at the head are consumed
PopHeader(nt, s, d) == [nt EXCEPT ![s].hdrOnly[d] = TRUE]

FrameClass_ChecksumUnchecked(n, f) ==
  IF ~verifyHeader(n, f.magic, f.chainID, f.version) THEN "mismatch"
  ELSE IF f.short THEN "dataerr"
  ELSE f.msgName

\* what the loop does with frame f: the failure of its validation, or its name
FrameClass(n, f) ==
  IF ~verifyHeader(n, f.magic, f.chainID, f.version) THEN "mismatch"
  ELSE IF f.short THEN "dataerr"
  ELSE IF ChecksumIEEE(f.data) # f.dataChecksum THEN "checksum"
  ELSE f.msgName

\* a frame is there for ReadUint32(s, 36), and it is of class c
Reading(s, d, c) ==
  /\ LoopAt(s, d, "read")
  /\ net[s].q[d] # <<>>
  /\ FrameClass(Owner(net, s, d), Head(net[s].q[d])) = c

\* goroutines blocked in a send on ns.quitCh of node n
Senders(n) ==
  (IF stopPc[n] = "sending" THEN {<<0, "stop">>} ELSE {})
  \cup {x \in StreamIds \X Sides :
          /\ x[1] <= Len(net)
          /\ Owner(net, x[1], x[2]) = n
          /\ loops[x[1]][x[2]].pc \in {"quit1", "quit2"}}

PutMessage(disp, msg) == [disp EXCEPT !.msgs = @ \cup {msg}]

\* the task is through with node.stream / node.conn: the statements that read
\* or wrote them are behind it
StoreLeave(n, task) == access' = [access EXCEPT ![n] = {e \in @ : e.task # task}]

Commit(n, nd, nt, lp) ==
  /\ node' = [node EXCEPT ![n] = nd]
  /\ net' = nt
  /\ loops' = lp

\* select: a value is ready on quitCh (a sender is blocked on it): the loop
\* receives it and ends; the sender goes on.  fromProtoFails is the outcome of
\* block.FromProto on the message left by a failed Unmarshal.
SelectQuit(s, d, snd, fromProtoFails) ==
  LET n == Owner(net, s, d) IN
  /\ LoopAt(s, d, "select")
  /\ snd \in Senders(n)
  /\ IF snd = <<0, "stop">>
       THEN /\ stopPc' = [stopPc EXCEPT ![n] = "returned"]
            /\ loops' = Exit(loops, s, d, "quit")
            /\ fromProtoFails = FALSE
            /\ UNCHANGED dispatcher
       ELSE /\ UNCHANGED stopPc
            /\ IF loops[snd[1]][snd[2]].pc = "quit1" /\ fromProtoFails
                 THEN /\ loops' = Goto(Exit(loops, s, d, "quit"), snd[1], snd[2], "quit2")
                      /\ UNCHANGED dispatcher
                 ELSE /\ loops' = Goto(Exit(loops, s, d, "quit"), snd[1], snd[2], "select")
                      /\ dispatcher' = [dispatcher EXCEPT ![n] =
                            PutMessage(@, [name |-> NEWBLOCK, decoded |-> FALSE])]
                      /\ (loops[snd[1]][snd[2]].pc = "quit2" => fromProtoFails = FALSE)
  /\ UNCHANGED <<node, registered, net, sendTasks, crashed, live, calls, envEvents, launch,
                 access, wire>>

\* select: nothing is ready on quitCh: default, and the loop blocks in ReadUint32
SelectDefault(s, d) ==
  /\ LoopAt(s, d, "select")
  /\ Senders(Owner(net, s, d)) = {}
  /\ loops' = Goto(loops, s, d, "read")
  /\ UNCHANGED <<node, registered, net, stopPc, dispatcher, sendTasks, crashed, live,
                 calls, envEvents, launch, access, wire>>

\* ReadUint32(s, 36) fails: the stream is broken and holds no frame
RecvHeaderError(s, d) ==
  LET n == Owner(net, s, d)
      pid == Remote(net, s, d)
  IN /\ LoopAt(s, d, "read")
     /\ net[s].q[d] = <<>>
     /\ ~net[s].open
     /\ Commit(n, Bye(node[n], pid, <<AddrOf(pid)>>), net, Exit(loops, s, d, "hdrerr"))
     /\ StoreLeave(Owner(net, s, d), <<s, d>>)
     /\ UNCHANGED <<registered, stopPc, dispatcher, sendTasks, crashed, live, calls,
                    envEvents, launch, wire>>

\* verifyHeader fails: Bye, and the loop ends with the payload unread
RecvMismatch(s, d) ==
  LET n == Owner(net, s, d)
      pid == Remote(net, s, d)
  IN /\ Reading(s, d, "mismatch")
     /\ Commit(n, Bye(node[n], pid, <<AddrOf(pid)>>), PopHeader(net, s, d),
               Exit(loops, s, d, "mismatch"))
     /\ StoreLeave(Owner(net, s, d), <<s, d>>)
     /\ UNCHANGED <<registered, stopPc, dispatcher, sendTasks, crashed, live, calls,
                    envEvents, launch, wire>>

\* ReadUint32(s, dataLength) fails
RecvDataError(s, d) ==
  LET n == Owner(net, s, d)
      pid == Remote(net, s, d)
  IN /\ Reading(s, d, "dataerr")
     /\ Commit(n, Bye(node[n], pid, <<AddrOf(pid)>>), Pop(net, s, d),
               Exit(loops, s, d, "dataerr"))
     /\ StoreLeave(Owner(net, s, d), <<s, d>>)
     /\ UNCHANGED <<registered, stopPc, dispatcher, sendTasks, crashed, live, calls,
                    envEvents, launch, wire>>

\* the payload checksum differs: the loop ends
RecvChecksumError(s, d) ==
  LET n == Owner(net, s, d) IN
  /\ Reading(s, d, "checksum")
  /\ Commit(n, node[n], Pop(net, s, d), Exit(loops, s, d, "checksum"))
  /\ UNCHANGED <<registered, stopPc, dispatcher, sendTasks, crashed, live, calls,
                 envEvents, launch, access, wire>>

Register_NoUpdate(nd, addr, s, pid) ==
  [nd EXCEPT !.stream[addr] = s, !.conn[addr] = S_OK]

\* node.stream[addrs] = s; node.conn[addrs] = S_OK; node.routeTable.Update(pid)
Register(nd, addr, s, pid) ==
  Update([nd EXCEPT !.stream[addr] = s, !.conn[addr] = S_OK], pid)

\* case HELLO
RecvHello(s, d) ==
  LET n == Owner(net, s, d)
      pid == Remote(net, s, d)
      nt == Pop(net, s, d)
  IN /\ Reading(s, d, HELLO)
     /\ IF ~WriteOK(nt, s)
          THEN /\ Commit(n, node[n], nt, Exit(loops, s, d, "write"))
          ELSE /\ Commit(n, Register(node[n], AddrOf(pid), s, pid),
                         Write(nt, n, s, buildData(n, Text(OK), OK)),
                         Goto(loops, s, d, "select"))
     /\ StoreLeave(Owner(net, s, d), <<s, d>>)
     /\ UNCHANGED <<registered, stopPc, dispatcher, sendTasks, crashed, live, calls,
                    envEvents, launch, wire>>

\* case OK
RecvOk(s, d) ==
  LET n == Owner(net, s, d)
      pid == Remote(net, s, d)
      f == Head(net[s].q[d])
      nt == Pop(net, s, d)
  IN /\ Reading(s, d, OK)
     /\ IF f.data = Text(OK)
          THEN /\ Commit(n, Register(node[n], AddrOf(pid), s, pid), nt,
                         Goto(loops, s, d, "select"))
          ELSE /\ Commit(n, node[n], nt, Exit(loops, s, d, "badok"))
     /\ StoreLeave(Owner(net, s, d), <<s, d>>)
     /\ UNCHANGED <<registered, stopPc, dispatcher, sendTasks, crashed, live, calls,
                    envEvents, launch, wire>>

\* case BYE, and a name the switch has no case for
RecvBye(s, d) ==
  LET n == Owner(net, s, d) IN
  /\ LoopAt(s, d, "read")
  /\ net[s].q[d] # <<>>
  /\ FrameClass(n, Head(net[s].q[d])) \notin
       {"mismatch", "dataerr", "checksum", HELLO, OK, NEWBLOCK, SYNCROUTE, SYNCROUTEREPLY}
  /\ Commit(n, node[n], Pop(net, s, d), Goto(loops, s, d, "select"))
  /\ UNCHANGED <<registered, stopPc, dispatcher, sendTasks, crashed, live, calls,
                 envEvents, launch, access, wire>>

\* case NEWBLOCK: a payload that does not unmarshal leaves the loop sending on quitCh
RecvNewBlock(s, d) ==
  LET n == Owner(net, s, d)
      f == Head(net[s].q[d])
  IN /\ Reading(s, d, NEWBLOCK)
     /\ IF UnmarshalOK(f.data)
          THEN /\ Commit(n, node[n], Pop(net, s, d), Goto(loops, s, d, "select"))
               /\ dispatcher' = [dispatcher EXCEPT ![n] =
                     PutMessage(@, [name |-> NEWBLOCK, decoded |-> TRUE])]
          ELSE /\ Commit(n, node[n], Pop(net, s, d), Goto(loops, s, d, "quit1"))
               /\ UNCHANGED dispatcher
     /\ UNCHANGED <<registered, stopPc, sendTasks, crashed, live, calls, envEvents, launch,
                    access, wire>>

\* ------------------------------------------------------- route discovery
\* node.config.maxSyncNodes
maxSyncNodes == 1

RECURSIVE Xor(_, _)
Xor(a, b) ==
  IF a = 0 THEN b
  ELSE IF b = 0 THEN a
  ELSE (((a % 2) + (b % 2)) % 2) + 2 * Xor(a \div 2, b \div 2)

\* kbucket.ConvertPeerID and the XOR metric on it
Dist(p, q) == Xor(PeerCode(p), PeerCode(q))

\* routeTable.NearestPeers(target, count): the count nearest entries, nearest first
RECURSIVE NearestPeers(_, _, _)
NearestPeers(table, target, count) ==
  IF count = 0 \/ table = {} THEN <<>>
  ELSE LET m == CHOOSE p \in table : \A q \in table : Dist(p, target) <= Dist(q, target)
       IN <<m>> \o NearestPeers(table \ {m}, target, count - 1)

AddrOrder == <<AddrOf("A"), AddrOf("B"), AddrOf("C")>>

\* node.peerstore.PeerInfo(p)
StoredPeerInfo(nd, p) ==
  LET known(a) == a \in PeerAddrs(nd, p) IN PeerInfo(p, SelectSeq(AddrOrder, known))

SyncPeerList_KeepsAll(nd, peers) == [i \in 1..Len(peers) |-> StoredPeerInfo(nd, peers[i])]

\* the peerList of case SYNCROUTE: the infos of peers, those without address left out
RECURSIVE SyncPeerList(_, _)
SyncPeerList(nd, peers) ==
  IF peers = <<>> THEN <<>>
  ELSE LET peerInfo == StoredPeerInfo(nd, Head(peers)) IN
       IF Len(peerInfo.Addrs) = 0 THEN SyncPeerList(nd, Tail(peers))
       ELSE <<peerInfo>> \o SyncPeerList(nd, Tail(peers))

\* case SYNCROUTE
RecvSyncRoute(s, d) ==
  LET n == Owner(net, s, d)
      pid == Remote(net, s, d)
      nt == Pop(net, s, d)
      peers == NearestPeers(node[n].routeTable, pid, maxSyncNodes)
      totalData == buildData(n, PeerList(SyncPeerList(node[n], peers)), SYNCROUTEREPLY)
      stream == node[n].stream[AddrOf(pid)]
  IN /\ Reading(s, d, SYNCROUTE)
     /\ IF stream = NoStream
          THEN Commit(n, node[n], nt, Exit(loops, s, d, "nostream"))
          ELSE IF ~WriteOK(nt, stream)
          THEN Commit(n, node[n], nt, Exit(loops, s, d, "write"))
          ELSE Commit(n, Update(node[n], pid), Write(nt, n, stream, totalData),
                      Goto(loops, s, d, "select"))
     /\ StoreLeave(Owner(net, s, d), <<s, d>>)
     /\ UNCHANGED <<registered, stopPc, dispatcher, sendTasks, crashed, live, calls,
                    envEvents, launch, wire>>

\* case SYNCROUTEREPLY: the list is decoded, its candidates are handled in turn
RecvSyncRouteReply(s, d) ==
  LET n == Owner(net, s, d)
      sample == JsonDecode(Head(net[s].q[d]).data)
  IN /\ Reading(s, d, SYNCROUTEREPLY)
     /\ Commit(n, node[n], Pop(net, s, d),
               IF sample = <<>> THEN Goto(loops, s, d, "select")
               ELSE [loops EXCEPT ![s][d].pc = "reply", ![s][d].todo = sample])
     /\ UNCHANGED <<registered, stopPc, dispatcher, sendTasks, crashed, live, calls,
                    envEvents, launch, access, wire>>

Find_Nothing(nd, id) == FALSE

\* routeTable.Find(id) != ""
Find(nd, id) == id \in nd.routeTable

HandleCandidate_ErrIgnored(n, nd, nt, lp, c, outcome) ==
  IF Find(nd, c.ID) \/ Len(c.Addrs) = 0
    THEN [err |-> "skip", node |-> nd, net |-> nt, loops |-> lp]
  ELSE LET h == Hello(n, AddAddr(nd, c.ID, c.Addrs[1], TempAddrTTL), nt, lp, c.ID, outcome)
       IN [h EXCEPT !.node = Update(AddAddr(@, c.ID, c.Addrs[1], PermanentAddrTTL), c.ID)]

\* one turn of the loop over sample: the state after candidate c is handled,
\* outcome being that of the NewStream of its Hello
HandleCandidate(n, nd, nt, lp, c, outcome) ==
  IF Find(nd, c.ID) \/ Len(c.Addrs) = 0
    THEN [err |-> "skip", node |-> nd, net |-> nt, loops |-> lp]
  ELSE LET h == Hello(n, AddAddr(nd, c.ID, c.Addrs[1], TempAddrTTL), nt, lp, c.ID, outcome)
       IN IF h.err # "nil" THEN h
          ELSE [h EXCEPT !.node = Update(AddAddr(@, c.ID, c.Addrs[1], PermanentAddrTTL), c.ID)]

ReplyStep(s, d, outcome) ==
  LET n == Owner(net, s, d)
      c == Head(loops[s][d].todo)
      nd == AddAddr(node[n], c.ID, c.Addrs[1], TempAddrTTL)
      r == HandleCandidate(n, node[n], net, loops, c, outcome)
      rest == Tail(loops[s][d].todo)
  IN /\ LoopAt(s, d, "reply")
     /\ IF Find(node[n], c.ID) \/ Len(c.Addrs) = 0
          THEN outcome = "fail"
          ELSE outcome \in HelloOutcomes(n, nd, net, c.ID)
     /\ Commit(n, r.node, r.net,
               [r.loops EXCEPT ![s][d].todo = rest,
                               ![s][d].pc = IF rest = <<>> THEN "select" ELSE "reply"])
     /\ UNCHANGED <<registered, stopPc, dispatcher, sendTasks, crashed, live, calls,
                    envEvents, launch, access, wire>>

\* ------------------------------------------------------------ operations
\* node n runs the program and has not died
Running(n) == n \in live /\ ~crashed[n]

\* RegisterNetService: the stream handler is installed on the host
RegisterNetService(n) ==
  /\ Running(n)
  /\ ~registered[n]
  /\ registered' = [registered EXCEPT ![n] = TRUE]
  /\ UNCHANGED <<node, net, loops, stopPc, dispatcher, sendTasks, crashed, live, calls,
                 envEvents, launch, access, wire>>

\* a call of Hello(pid) on node n
CallHello(n, pid, outcome) ==
  LET r == Hello(n, node[n], net, loops, pid, outcome) IN
  /\ Running(n)
  /\ calls < MaxCalls
  /\ outcome \in HelloOutcomes(n, node[n], net, pid)
  /\ Commit(n, r.node, r.net, r.loops)
  /\ calls' = calls + 1
  /\ UNCHANGED <<registered, stopPc, dispatcher, sendTasks, crashed, live, envEvents,
                 launch, access, wire>>

\* Stop: dispatcher.Stop(), then the caller blocks in its send on quitCh
Stop(n) ==
  /\ Running(n)
  /\ stopPc[n] = "idle"
  /\ calls < MaxCalls
  /\ dispatcher' = [dispatcher EXCEPT ![n].stopped = TRUE]
  /\ stopPc' = [stopPc EXCEPT ![n] = "sending"]
  /\ calls' = calls + 1
  /\ UNCHANGED <<node, registered, net, loops, sendTasks, crashed, live, envEvents, launch,
                 access, wire>>

BroadcastSends_SelfIncluded(id, allNode) ==
  [p \in Peers |-> IF p \in allNode THEN 1 ELSE 0]

\* the goroutines Broadcast starts over allNode = routeTable.ListPeers(): how
\* many SendMsg("newblock", data, p) for each peer p
BroadcastSends(id, allNode) ==
  [p \in Peers |-> IF p \in allNode /\ p # id THEN 1 ELSE 0]

\* Broadcast(block); marshalErr is whether proto.Marshal of the block returned
\* an error, on which Broadcast returns before it reads the route table
Broadcast(n, marshalErr) ==
  LET allNode == node[n].routeTable
      started == IF marshalErr THEN [p \in Peers |-> 0] ELSE BroadcastSends(n, allNode)
  IN /\ Running(n)
     /\ calls < MaxCalls
     /\ sendTasks' = [sendTasks EXCEPT ![n] = [p \in Peers |-> @[p] + started[p]]]
     /\ calls' = calls + 1
     /\ UNCHANGED <<node, registered, net, loops, stopPc, dispatcher, crashed, live,
                    envEvents, launch, access, wire>>

\* an unrecovered panic ends the process: its connections break
Panic(nt, n) ==
  [s \in 1..Len(nt) |-> IF n \in {nt[s].from, nt[s].to} THEN [nt[s] EXCEPT !.open = FALSE]
                        ELSE nt[s]]

\* SendMsg(msgName, msg, pid) on node n, addr being addrs[0] when there is one:
\* the streams after it, and whether it panicked (addrs[0] of an empty list)
SendMsg(n, nd, nt, msgName, msg, pid, addr) ==
  LET stream == nd.stream[addr] IN
  IF PeerAddrs(nd, pid) = {} THEN [panic |-> TRUE, net |-> Panic(nt, n)]
  ELSE IF stream = NoStream \/ ~WriteOK(nt, stream) THEN [panic |-> FALSE, net |-> nt]
  ELSE [panic |-> FALSE, net |-> Write(nt, n, stream, buildData(n, msg, msgName))]

\* addrs[0]: any of the peer's addresses (the address book keeps no order)
FirstAddrs(nd, pid) == IF PeerAddrs(nd, pid) = {} THEN {AddrOf(pid)} ELSE PeerAddrs(nd, pid)

\* one of the goroutines started by Broadcast runs
RunSendMsg(n, pid, addr) ==
  LET r == SendMsg(n, node[n], net, NEWBLOCK, BlockData, pid, addr) IN
  /\ Running(n)
  /\ sendTasks[n][pid] > 0
  /\ addr \in FirstAddrs(node[n], pid)
  /\ sendTasks' = [sendTasks EXCEPT ![n][pid] = @ - 1]
  /\ net' = r.net
  /\ crashed' = [crashed EXCEPT ![n] = r.panic]
  /\ StoreLeave(n, <<0, pid>>)
  /\ UNCHANGED <<node, registered, loops, stopPc, dispatcher, live, calls, envEvents,
                 launch, wire>>

\* SyncRoutes(pid): the same path as SendMsg, with a SYNCROUTE frame
SyncRoutes(n, pid, addr) ==
  LET r == SendMsg(n, node[n], net, SYNCROUTE, Text(SYNCROUTE), pid, addr) IN
  /\ Running(n)
  /\ calls < MaxCalls
  /\ addr \in FirstAddrs(node[n], pid)
  /\ net' = r.net
  /\ crashed' = [crashed EXCEPT ![n] = r.panic]
  /\ calls' = calls + 1
  /\ UNCHANGED <<node, registered, loops, stopPc, dispatcher, sendTasks, live, envEvents,
                 launch, access, wire>>

\* ------------------------------------------------- peers outside the program
ValidFrame(msgName, data) == buildHeader(7, msgName, 1, data, ChecksumIEEE(data))

Candidates ==
  {PeerInfo(p, <<AddrOf(p)>>) : p \in Peers} \cup {PeerInfo("C", <<>>)}

EnvFrames ==
  {ValidFrame(HELLO, Text(HELLO)), ValidFrame(OK, Text(OK)), ValidFrame(OK, JunkData),
   ValidFrame(BYE, Text(BYE)), ValidFrame(NEWBLOCK, BlockData), ValidFrame(NEWBLOCK, JunkData),
   ValidFrame(SYNCROUTE, Text(SYNCROUTE)),
   [ValidFrame(HELLO, Text(HELLO)) EXCEPT !.magic = "XXXX"],
   [ValidFrame(HELLO, Text(HELLO)) EXCEPT !.chainID = 9],
   [ValidFrame(HELLO, Text(HELLO)) EXCEPT !.version = 2],
   [ValidFrame(NEWBLOCK, BlockData) EXCEPT !.dataChecksum = (@ + 1) % 65536],
   [ValidFrame(NEWBLOCK, BlockData) EXCEPT !.short = TRUE]}
  \cup {ValidFrame(SYNCROUTEREPLY, PeerList(<<c>>)) : c \in Candidates}

\* a peer outside the program opens a stream to node n: n's handler runs on it
EnvOpen(p, n) ==
  /\ p \notin live
  /\ registered[n]
  /\ Running(n)
  /\ Len(net) < MaxStreams
  /\ net' = Append(net, NewStreamRec(p, n, TRUE))
  /\ loops' = streamHandler(loops, Len(net) + 1, "a")
  /\ UNCHANGED <<node, registered, stopPc, dispatcher, sendTasks, crashed, live, calls,
                 envEvents, launch, access, wire>>

\* a peer outside the program writes a frame on a stream it is an endpoint of
EnvWrite(s, d, f) ==
  /\ s \in 1..Len(net)
  /\ Owner(net, s, d) \in live
  /\ Remote(net, s, d) \notin live
  /\ net[s].open
  /\ loops[s][d].pc # "done"
  /\ Len(net[s].q[d]) < MaxInFlight
  /\ envEvents < MaxEnv
  /\ net' = [net EXCEPT ![s].q[d] = Append(@, f)]
  /\ envEvents' = envEvents + 1
  /\ UNCHANGED <<node, registered, loops, stopPc, dispatcher, sendTasks, crashed, live,
                 calls, launch, access, wire>>

\* the connection under a stream breaks
EnvClose(s) ==
  /\ s \in 1..Len(net)
  /\ net[s].open
  /\ envEvents < MaxEnv
  /\ net' = [net EXCEPT ![s].open = FALSE]
  /\ envEvents' = envEvents + 1
  /\ UNCHANGED <<node, registered, loops, stopPc, dispatcher, sendTasks, crashed, live,
                 calls, launch, access, wire>>

\* ------------------------------------------------------------------ Next
\* a step of the receive loop of endpoint d of stream s
LoopOf(s, d) ==
    \/ \E snd \in (0..MaxStreams) \X (Sides \cup {"stop"}), b \in BOOLEAN : SelectQuit(s, d, snd, b)
    \/ SelectDefault(s, d)
    \/ RecvHeaderError(s, d)
    \/ RecvMismatch(s, d)
    \/ RecvDataError(s, d)
    \/ RecvChecksumError(s, d)
    \/ RecvHello(s, d)
    \/ RecvOk(s, d)
    \/ RecvBye(s, d)
    \/ RecvNewBlock(s, d)
    \/ RecvSyncRoute(s, d)
    \/ RecvSyncRouteReply(s, d)
    \/ \E o \in {"fail", "ok", "reset"} : ReplyStep(s, d, o)

LoopStep == \E s \in StreamIds, d \in Sides : LoopOf(s, d)

CallStep ==
  \E n \in Nodes :
    \/ RegisterNetService(n)
    \/ \E pid \in Peers, o \in {"fail", "ok", "reset"} : CallHello(n, pid, o)
    \/ Stop(n)
    \/ (\E marshalErr \in BOOLEAN : Broadcast(n, marshalErr))
    \/ \E pid \in Peers, a \in Addrs : RunSendMsg(n, pid, a)
    \/ \E pid \in Peers, a \in Addrs : SyncRoutes(n, pid, a)

EnvStep ==
  \/ \E p \in Peers, n \in Nodes : EnvOpen(p, n)
  \/ \E s \in StreamIds, d \in Sides, f \in EnvFrames : EnvWrite(s, d, f)
  \/ \E s \in StreamIds : EnvClose(s)

Next == LoopStep \/ CallStep \/ EnvStep

Spec == Init /\ [][Next]_vars

\* The Go scheduler runs every goroutine that can run: a receive loop that can
\* take a step takes one, and so does a goroutine started by Broadcast.  Callers
\* and outside peers owe nothing.
Fairness ==
  /\ \A s \in StreamIds, d \in Sides : WF_vars(LoopOf(s, d))
  /\ \A n \in Nodes : WF_vars(\E pid \in Peers, a \in Addrs : RunSendMsg(n, pid, a))

FairSpec == Spec /\ Fairness

\* Two launched nodes of the same chain id and version, a network that loses
\* and breaks nothing (NewStream fails only for a peer that cannot be dialled),
\* and no operation but the handshake.
PairInit == InitWith({"A", "B"}, {"A", "B"})

PairNext ==
  \/ \E n \in Nodes, pid \in Peers :
       /\ Len(net) < MaxStreams
       /\ CallHello(n, pid, IF CanDial(n, node[n], net, pid) THEN "ok" ELSE "fail")
  \/ \E s \in StreamIds, d \in Sides : SelectDefault(s, d) \/ RecvHello(s, d) \/ RecvOk(s, d)

PairSpec ==
  /\ PairInit
  /\ [][PairNext]_vars
  /\ \A s \in StreamIds, d \in Sides :
        WF_vars(SelectDefault(s, d) \/ RecvHello(s, d) \/ RecvOk(s, d))

\* Broadcast over any table routeTable.ListPeers() can answer: the table holds
\* whatever identities Update was given, the local one included.  The address
\* book holds the address of some of them (Bye clears the address of a peer
\* that case SYNCROUTE may put back in the table).
BroadcastInit ==
  /\ live = {"A"}
  /\ \E table \in SUBSET Peers : \E known \in SUBSET table :
       node = [n \in Nodes |->
                 IF n # "A" THEN NewNode(n)
                 ELSE [NewNode(n) EXCEPT
                         !.routeTable = table,
                         !.peerstore = [p \in Peers |-> [a \in Addrs |->
                            IF p \in known /\ a = AddrOf(p) THEN PermanentAddrTTL
                            ELSE TTLNone]]]]
  /\ registered = [n \in Nodes |-> FALSE]
  /\ net = <<>>
  /\ loops = [s \in StreamIds |-> [d \in Sides |-> NoLoop]]
  /\ stopPc = [n \in Nodes |-> "idle"]
  /\ dispatcher = [n \in Nodes |-> [stopped |-> FALSE, msgs |-> {}]]
  /\ sendTasks = [n \in Nodes |-> [p \in Peers |-> 0]]
  /\ crashed = [n \in Nodes |-> FALSE]
  /\ calls = 0
  /\ envEvents = 0
  /\ launch = [n \in Nodes |-> NotLaunched]
  /\ access = [n \in Nodes |-> {}]
  /\ wire = NoWire

BroadcastNext ==
  \/ \E n \in Nodes, marshalErr \in BOOLEAN : Broadcast(n, marshalErr)
  \/ \E n \in Nodes, pid \in Peers, a \in Addrs : RunSendMsg(n, pid, a)

BroadcastSpec == BroadcastInit /\ [][BroadcastNext]_vars

\* ---------------------------------------------------------------- Launch
LaunchCall_NoLatch(n) ==
  /\ Running(n)
  /\ calls < MaxCalls
  /\ calls' = calls + 1
  /\ launch' = [launch EXCEPT ![n].running = TRUE, ![n].pc = "wait",
                              ![n].pending = BootNodes(n)]
  /\ registered' = [registered EXCEPT ![n] = TRUE]
  /\ UNCHANGED <<node, net, loops, stopPc, dispatcher, sendTasks, crashed, live, envEvents,
                 access, wire>>

\* Launch(): an error when node.running is set already; else the flag is set,
\* the stream handler installed, and one goroutine started for each bootstrap
\* address, which Launch waits for (wg.Wait)
LaunchCall(n) ==
  /\ Running(n)
  /\ calls < MaxCalls
  /\ calls' = calls + 1
  /\ IF launch[n].running
       THEN /\ launch' = [launch EXCEPT ![n].errs = @ + 1]
            /\ UNCHANGED registered
       ELSE /\ launch' = [launch EXCEPT ![n].running = TRUE, ![n].pc = "wait",
                                        ![n].pending = BootNodes(n)]
            /\ registered' = [registered EXCEPT ![n] = TRUE]
  /\ UNCHANGED <<node, net, loops, stopPc, dispatcher, sendTasks, crashed, live, envEvents,
                 access, wire>>

LaunchReturn_NoWait(n) ==
  /\ Running(n)
  /\ launch[n].pc = "wait"
  /\ launch' = [launch EXCEPT ![n].pc = "returned", ![n].discovery = @ + 1]
  /\ UNCHANGED <<node, registered, net, loops, stopPc, dispatcher, sendTasks, crashed,
                 live, calls, envEvents, access, wire>>

HelloReturns_AfterOk(n, pid) == node[n].conn[AddrOf(pid)] = S_OK

\* what Hello waits for between ns.streamHandler(stream), which starts the
\* receive loop as a goroutine of its own, and its return nil: nothing
HelloReturns(n, pid) == TRUE

\* the goroutine of bootstrap address b calls ns.SayHello(bootNode): Hello
\* runs up to the start of the receive loop, or to the error it returns
SayHello(n, b, outcome) ==
  LET r == Hello(n, node[n], net, loops, b, outcome) IN
  /\ Running(n)
  /\ launch[n].pc = "wait"
  /\ b \in launch[n].pending \ launch[n].hello
  /\ outcome \in HelloOutcomes(n, node[n], net, b)
  /\ Commit(n, r.node, r.net, r.loops)
  /\ launch' = [launch EXCEPT ![n].hello = @ \cup {b}]
  /\ UNCHANGED <<registered, stopPc, dispatcher, sendTasks, crashed, live, calls,
                 envEvents, access, wire>>

\* Hello returns to the goroutine, which logs its error and calls wg.Done()
SayHelloDone(n, b) ==
  /\ Running(n)
  /\ b \in launch[n].hello
  /\ HelloReturns(n, b)
  /\ launch' = [launch EXCEPT ![n].hello = @ \ {b}, ![n].pending = @ \ {b}]
  /\ UNCHANGED <<node, registered, net, loops, stopPc, dispatcher, sendTasks, crashed,
                 live, calls, envEvents, access, wire>>

\* wg.Wait() returns: the discovery goroutine is started and Launch returns nil
LaunchReturn(n) ==
  /\ Running(n)
  /\ launch[n].pc = "wait"
  /\ launch[n].pending = {}
  /\ launch' = [launch EXCEPT ![n].pc = "returned", ![n].discovery = @ + 1]
  /\ UNCHANGED <<node, registered, net, loops, stopPc, dispatcher, sendTasks, crashed,
                 live, calls, envEvents, access, wire>>

\* the discovery loop: a SyncRoutes to a peer of the route table
Discovery(n, pid, addr) ==
  /\ launch[n].discovery > 0
  /\ pid \in node[n].routeTable
  /\ SyncRoutes(n, pid, addr)

LaunchStep ==
  \E n \in Nodes :
    \/ LaunchCall(n)
    \/ \E b \in Peers, o \in {"fail", "ok", "reset"} : SayHello(n, b, o)
    \/ \E b \in Peers : SayHelloDone(n, b)
    \/ LaunchReturn(n)
    \/ \E pid \in Peers, a \in Addrs : Discovery(n, pid, a)

\* the node with its Launch, its Stop and the handshakes of its connections
LaunchNext ==
  \/ LaunchStep
  \/ \E n \in Nodes : Stop(n)
  \/ \E p \in Peers, n \in Nodes : EnvOpen(p, n)
  \/ \E s \in StreamIds, d \in Sides :
       \E f \in {ValidFrame(HELLO, Text(HELLO)), ValidFrame(OK, Text(OK)),
                 ValidFrame(OK, JunkData)} : EnvWrite(s, d, f)
  \/ \E s \in StreamIds, d \in Sides :
       \/ SelectQuit(s, d, <<0, "stop">>, FALSE)
       \/ SelectDefault(s, d)
       \/ RecvHello(s, d)
       \/ RecvOk(s, d)

\* the Go scheduler runs the goroutines Launch started and Launch itself:
\* wg.Wait() returns once every goroutine has called wg.Done()
LaunchFairness ==
  \A n \in Nodes :
    /\ WF_vars(\E b \in Peers, o \in {"fail", "ok", "reset"} : SayHello(n, b, o))
    /\ WF_vars(\E b \in Peers : SayHelloDone(n, b))
    /\ WF_vars(LaunchReturn(n))

LaunchSpec == Init /\ [][LaunchNext]_vars /\ LaunchFairness

\* ------------------------------------------------------ route discovery runs
\* Nodes A and B after the handshake B started on stream 1 (both ends
\* Connected, each in the other's route table), A's handler installed; in the
\* second case a later Hello of A to B has failed at NewStream, which cleared
\* B's address and took B from A's route table, the send handle staying.
SyncInit ==
  LET a0 == [NewNode("A") EXCEPT !.conn[AddrOf("B")] = S_OK, !.stream[AddrOf("B")] = 1,
                                 !.routeTable = {"B"}]
      b0 == [NewNode("B") EXCEPT !.conn[AddrOf("A")] = S_OK, !.stream[AddrOf("A")] = 1,
                                 !.routeTable = {"A"}]
  IN
  /\ live = {"A", "B"}
  /\ \E helloFailed \in BOOLEAN :
       node = [n \in Nodes |->
                 IF n = "B" THEN b0
                 ELSE IF helloFailed
                   THEN Hello("A", a0, <<>>, <<>>, "B", "fail").node
                   ELSE a0]
  /\ registered = [n \in Nodes |-> n = "A"]
  /\ net = <<NewStreamRec("B", "A", TRUE)>>
  /\ loops = [s \in StreamIds |-> [d \in Sides |->
                 IF s = 1 THEN [NoLoop EXCEPT !.pc = "select"] ELSE NoLoop]]
  /\ stopPc = [n \in Nodes |-> "idle"]
  /\ dispatcher = [n \in Nodes |-> [stopped |-> FALSE, msgs |-> {}]]
  /\ sendTasks = [n \in Nodes |-> [p \in Peers |-> 0]]
  /\ crashed = [n \in Nodes |-> FALSE]
  /\ calls = 0
  /\ envEvents = 0
  /\ launch = [n \in Nodes |-> NotLaunched]
  /\ access = [n \in Nodes |-> {}]
  /\ wire = NoWire

\* the SYNCROUTEREPLY frames of two candidates, B and C with or without
\* address, a peer outside the program sends
SyncReplies ==
  {ValidFrame(SYNCROUTEREPLY, PeerList(<<c1, c2>>)) :
     c1 \in {c \in Candidates : c.ID # "A"}, c2 \in {c \in Candidates : c.ID # "A"}}

\* B asks A for routes; C, outside the program, connects to A, says HELLO and
\* sends a SYNCROUTEREPLY
SyncNext ==
  \/ \E n \in Nodes, pid \in Peers, a \in Addrs : SyncRoutes(n, pid, a)
  \/ \E p \in Peers, n \in Nodes : EnvOpen(p, n)
  \/ \E s \in StreamIds, d \in Sides :
       \E f \in {ValidFrame(HELLO, Text(HELLO))} \cup SyncReplies : EnvWrite(s, d, f)
  \/ \E s \in StreamIds, d \in Sides :
       \/ SelectDefault(s, d)
       \/ RecvHello(s, d)
       \/ RecvSyncRoute(s, d)
       \/ RecvSyncRouteReply(s, d)
       \/ \E o \in {"fail", "ok", "reset"} : ReplyStep(s, d, o)

SyncSpec == SyncInit /\ [][SyncNext]_vars

\* --------------------------------------------------------- the codec alone
ByteSeqs(S, max) == UNION {[1..k -> S] : k \in 0..max}

\* message names: the short ones over three bytes, zero among them, the
\* constants HELLO and SYNCROUTEREPLY, names that fill 11 bytes of the field,
\* with a zero byte or without, and one that fills all 12
CodecNames ==
  ByteSeqs({0, 97, 98}, MaxBytes)
  \cup {<<104, 101, 108, 108, 111>>,
        <<114, 101, 115, 121, 110, 99, 114, 111, 117, 116, 101>>}
  \cup {[i \in 1..11 |-> IF i = k THEN 0 ELSE 97] : k \in 1..11}
  \cup {[i \in 1..12 |-> 97]}

CodecInit ==
  /\ live = {"A"}
  /\ node = [n \in Nodes |-> NewNode(n)]
  /\ registered = [n \in Nodes |-> FALSE]
  /\ net = <<>>
  /\ loops = [s \in StreamIds |-> [d \in Sides |-> NoLoop]]
  /\ stopPc = [n \in Nodes |-> "idle"]
  /\ dispatcher = [n \in Nodes |-> [stopped |-> FALSE, msgs |-> {}]]
  /\ sendTasks = [n \in Nodes |-> [p \in Peers |-> 0]]
  /\ crashed = [n \in Nodes |-> FALSE]
  /\ calls = 0
  /\ envEvents = 0
  /\ launch = [n \in Nodes |-> NotLaunched]
  /\ access = [n \in Nodes |-> {}]
  /\ wire \in [pc : {"input"}, chainID : {0, 7, 16909060}, version : {1, 255},
               msgName : CodecNames, data : ByteSeqs({0, 7, 255}, MaxBytes),
               cfgChainID : {7, 16909060}, cfgVersion : {1, 2},
               bytes : {<<>>}, read : {<<>>}]

\* the sender builds the frame and writes it
CodecBuild ==
  /\ wire.pc = "input"
  /\ wire' = [wire EXCEPT !.pc = "written",
                          !.bytes = buildDataBytes(wire.chainID, wire.version, wire.data,
                                                   wire.msgName)]
  /\ UNCHANGED <<node, registered, net, loops, stopPc, dispatcher, sendTasks, crashed,
                 live, calls, envEvents, launch, access>>

\* the receive loop of the receiver reads it
CodecRead ==
  /\ wire.pc = "written"
  /\ wire' = [wire EXCEPT !.pc = "read",
                          !.read = ReadFrame(wire.cfgChainID, wire.cfgVersion, wire.bytes)]
  /\ UNCHANGED <<node, registered, net, loops, stopPc, dispatcher, sendTasks, crashed,
                 live, calls, envEvents, launch, access>>

CodecNext == CodecBuild \/ CodecRead

CodecSpec == CodecInit /\ [][CodecNext]_vars

\* The statements that touch node.stream and node.conn, and who runs them: the
\* receive loop <<s, d>> on HELLO and OK (it writes both maps), on a failure that
\* calls Bye (it writes node.conn) and on SYNCROUTE (it reads node.stream); the
\* SendMsg goroutine <<0, pid>> of a Broadcast (it reads node.stream).  "none"
\* for a task that is not about to touch them.
StoreUse(n, task) ==
  IF task[1] = 0
    THEN IF sendTasks[n][task[2]] > 0 /\ PeerAddrs(node[n], task[2]) # {} THEN "r" ELSE "none"
  ELSE IF ~(task[1] <= Len(net) /\ Owner(net, task[1], task[2]) = n
            /\ LoopAt(task[1], task[2], "read"))
    THEN "none"
  ELSE IF net[task[1]].q[task[2]] = <<>>
    THEN IF net[task[1]].open THEN "none" ELSE "w"
  ELSE LET c == FrameClass(n, Head(net[task[1]].q[task[2]])) IN
       IF c \in {HELLO, OK, "mismatch", "dataerr"} THEN "w"
       ELSE IF c = SYNCROUTE THEN "r"
       ELSE "none"

StoreTasks == (StreamIds \X Sides) \cup ({0} \X Peers)

InStore(n, task) == \E e \in access[n] : e.task = task

\* The task comes to the statements that touch the maps.  The code takes no
\* lock and asks nobody: whoever else is at them does not hold it back.
StoreEnter(n, task) ==
  /\ Running(n)
  /\ StoreUse(n, task) # "none"
  /\ ~InStore(n, task)
  /\ access' = [access EXCEPT ![n] = @ \cup {[task |-> task, kind |-> StoreUse(n, task)]}]
  /\ UNCHANGED <<node, registered, net, loops, stopPc, dispatcher, sendTasks, crashed,
                 live, calls, envEvents, launch, wire>>

\* One node and its connections, with the reads and writes of node.stream and
\* node.conn taking their time: a task is at them from StoreEnter until its
\* handler is through.
StoreNext ==
  \/ \E n \in Nodes : RegisterNetService(n)
  \/ \E p \in Peers, n \in Nodes : EnvOpen(p, n)
  \/ \E s \in StreamIds, d \in Sides :
       \E f \in {ValidFrame(HELLO, Text(HELLO)),
                 [ValidFrame(HELLO, Text(HELLO)) EXCEPT !.magic = "XXXX"]} : EnvWrite(s, d, f)
  \/ \E s \in StreamIds, d \in Sides : SelectDefault(s, d)
  \/ \E n \in Nodes, task \in StoreTasks : StoreEnter(n, task)
  \/ \E s \in StreamIds, d \in Sides :
       /\ s <= Len(net)
       /\ Owner(net, s, d) \in live
       /\ InStore(Owner(net, s, d), <<s, d>>)
       /\ RecvHello(s, d) \/ RecvMismatch(s, d)
  \/ \E n \in Nodes : Broadcast(n, FALSE)
  \/ \E n \in Nodes, pid \in Peers, a \in Addrs : InStore(n, <<0, pid>>) /\ RunSendMsg(n, pid, a)

StoreSpec == Init /\ [][StoreNext]_vars

\* ================================================================ claims
LoopPc(x) == loops[x[1]][x[2]].pc
LoopIds == StreamIds \X Sides
LoopsOf(n) == {x \in LoopIds : x[1] <= Len(net) /\ Owner(net, x[1], x[2]) = n}

\* C1 (as claimed): once Stop is called, every receive loop that was running,
\* those waiting for their next frame included, eventually ends.  A loop that
\* waits in its read while the Stop call is pending was running when Stop was
\* called: it passed its select when nothing was pending on quitCh.
C1_StopEndsEveryLoop ==
  \A x \in LoopIds :
    [](\A n \in Nodes : (stopPc[n] = "sending" /\ x \in LoopsOf(n) /\ LoopPc(x) = "read")
                           => <>(LoopPc(x) = "done"))

\* C2 (as claimed): when the send on quitCh that a failed NEWBLOCK decode makes
\* goes through, no receive loop of another connection changes.
C2_DecodeFailureIsLocal ==
  [][\A x \in LoopIds :
       (LoopPc(x) \in {"quit1", "quit2"} /\ loops'[x[1]][x[2]].pc \notin {"quit1", "quit2"})
         => \A y \in LoopIds \ {x} : loops'[y[1]][y[2]] = loops[y[1]][y[2]]]_vars

\* C3 (as claimed): a Hello call returns nil only in a state where the session of
\* the peer is registered (the OK reply was received).
C3_HelloNilOnlyWhenRegistered ==
  [][\A n \in Nodes, pid \in Peers, o \in {"fail", "ok", "reset"} :
       (CallHello(n, pid, o) /\ Hello(n, node[n], net, loops, pid, o).err = "nil")
         => /\ node'[n].conn[AddrOf(pid)] = S_OK
            /\ node'[n].stream[AddrOf(pid)] # NoStream]_vars

\* C4 (as claimed): a peer identity is in the route table, and an address is a
\* long-lived entry of the address book, only once a handshake with the peer
\* has completed.  A completed handshake is what stores the send handle of the
\* peer's address, and nothing ever takes a stored handle away; the configured
\* bootstrap addresses are long-lived from the start.
C4_RouteTableOnlyAfterHandshake ==
  \A n \in Nodes, p \in Peers :
    /\ p \in node[n].routeTable => node[n].stream[AddrOf(p)] # NoStream
    /\ node[n].peerstore[p][AddrOf(p)] = PermanentAddrTTL
         => p \in BootNodes(n) \/ node[n].stream[AddrOf(p)] # NoStream

\* Hello has written its HELLO on stream s and started the caller's receive loop
HelloSent(s) == s <= Len(net) /\ loops[s]["o"].pc # "none"

Mutual(p, q) ==
  /\ node[p].conn[AddrOf(q)] = S_OK
  /\ node[q].conn[AddrOf(p)] = S_OK
  /\ q \in node[p].routeTable
  /\ p \in node[q].routeTable

MutualOn(s) == s <= Len(net) /\ Mutual(net[s].from, net[s].to)

\* C5: when A calls Hello on B, both of chain id 7 and version 1, and no frame is
\* lost or corrupted, then eventually each holds the other Connected and each
\* has the other in its route table.
C5_HandshakeCompletes ==
  \A s \in StreamIds : [](HelloSent(s) => <>MutualOn(s))

C5_Witness == \E s \in StreamIds : HelloSent(s) /\ MutualOn(s)

\* the receive loop x ends in this step, with exit reason in whys
Ends(x, whys) ==
  /\ LoopPc(x) # "done"
  /\ loops'[x[1]][x[2]].pc = "done"
  /\ loops'[x[1]][x[2]].exit \in whys

\* C6 (as claimed): every validation failure of a receive loop (header read,
\* magic / chain id / version, payload read, payload checksum, OK payload that is
\* not "ok") ends the loop with the disconnect action done: the peer is out of
\* the route table, its address-book entry is cleared, the status is Disconnected.
C6_EveryValidationFailureDisconnects ==
  [][\A x \in LoopIds :
       Ends(x, {"hdrerr", "mismatch", "dataerr", "checksum", "badok"})
         => LET n == Owner(net, x[1], x[2])
                p == Remote(net, x[1], x[2])
            IN /\ p \notin node'[n].routeTable
               /\ node'[n].peerstore[p][AddrOf(p)] = TTLNone
               /\ node'[n].conn[AddrOf(p)] = S_NC]_vars

\* what node n holds about every peer other than p is left as it was, and so is
\* every other node
OthersKept(n, p) ==
  /\ \A q \in Peers \ {p} :
        /\ node'[n].conn[AddrOf(q)] = node[n].conn[AddrOf(q)]
        /\ node'[n].stream[AddrOf(q)] = node[n].stream[AddrOf(q)]
        /\ (q \in node'[n].routeTable) = (q \in node[n].routeTable)
        /\ node'[n].peerstore[q] = node[n].peerstore[q]
  /\ \A m \in Nodes \ {n} : node'[m] = node[m]

RECURSIVE SumOver(_, _)
SumOver(f, S) ==
  IF S = {} THEN 0 ELSE LET p == CHOOSE q \in S : TRUE IN f[p] + SumOver(f, S \ {p})

\* the sends a Broadcast step of node n has started, for each peer
Started(n) == [p \in Peers |-> sendTasks'[n][p] - sendTasks[n][p]]

\* one send for each identity of the table of n that is not n, N-1 in all
OnePerOtherPeer(n) ==
  /\ Started(n)[n] = 0
  /\ \A p \in Peers : Started(n)[p] = IF p \in node[n].routeTable \ {n} THEN 1 ELSE 0
  /\ SumOver(Started(n), Peers) = Cardinality(node[n].routeTable) - 1
  /\ node[n].routeTable = {n} => SumOver(Started(n), Peers) = 0

\* C10 (as claimed): Broadcast over a route table of N identities, the local one
\* among them, starts exactly one NEWBLOCK send for each identity that is not
\* the local one (N-1 sends, to distinct peers), none to the local one, and
\* none at all when the table holds the local identity only.
C10_BroadcastSkipsSelf ==
  [][\A n \in Nodes, marshalErr \in BOOLEAN :
       (Broadcast(n, marshalErr) /\ n \in node[n].routeTable) => OnePerOtherPeer(n)]_vars

\* C10 (amended): Broadcast of a block that serializes, over a route table of N
\* identities, the local one among them, starts exactly one NEWBLOCK send for
\* each identity that is not the local one (N-1 sends, to distinct peers), none
\* to the local one, and none at all when the table holds the local identity
\* only; Broadcast of a block that does not serialize starts no send.
C10_BroadcastOfSerializedBlock ==
  [][\A n \in Nodes :
       /\ (Broadcast(n, FALSE) /\ n \in node[n].routeTable) => OnePerOtherPeer(n)
       /\ Broadcast(n, TRUE) => SumOver(Started(n), Peers) = 0]_vars

\* a Broadcast over a table of three identities, the local one among them, has
\* started its two sends
C10_Witness ==
  \E n \in Nodes :
    /\ n \in node[n].routeTable
    /\ Cardinality(node[n].routeTable) = 3
    /\ SumOver(sendTasks[n], Peers) = 2
    /\ calls = 1

\* node n holds no registered session for peer pid: no address of the peer is
\* known, or no send handle is stored for the addresses known
NoSession(n, pid) == \A a \in PeerAddrs(node[n], pid) : node[n].stream[a] = NoStream

\* C11 (as claimed): a send (SendMsg as a leg of Broadcast, SyncRoutes) to a peer
\* with no registered session, a peer with no known address included, writes
\* nothing, changes no state, raises no fatal error and leaves the sends to the
\* other peers of the same Broadcast to run.
C11_SendWithoutSessionIsNoOp ==
  [][\A n \in Nodes, pid \in Peers, a \in Addrs :
       ((RunSendMsg(n, pid, a) \/ SyncRoutes(n, pid, a)) /\ NoSession(n, pid))
         => /\ net' = net
            /\ node' = node
            /\ ~crashed'[n]
            /\ \A q \in Peers \ {pid} : sendTasks'[n][q] = sendTasks[n][q]]_vars

\* C12 (as claimed): the accesses to the Connection State Store (node.stream,
\* node.conn) by the receive loops and the broadcast sends exclude each other:
\* in no reachable state is one task writing the maps while another task reads
\* or writes them.
C12_StoreAccessesExclusive ==
  \A n \in Nodes : \A e1, e2 \in access[n] :
    e1 # e2 => e1.kind = "r" /\ e2.kind = "r"

\* C13: node.running is a one-way latch: no step resets it once a Launch call
\* has set it, and a Launch call made while it is set returns its error without
\* installing the stream handler, without starting bootstrap handshakes and
\* without starting another discovery loop.
C13_RunningIsOneWayLatch ==
  [][\A n \in Nodes :
       launch[n].running
         => /\ launch'[n].running
            /\ LaunchCall(n)
                 => /\ launch'[n].errs = launch[n].errs + 1
                    /\ registered' = registered
                    /\ launch'[n].pending = launch[n].pending
                    /\ launch'[n].hello = launch[n].hello
                    /\ launch'[n].discovery = launch[n].discovery
                    /\ launch'[n].pc = launch[n].pc
                    /\ net' = net
                    /\ loops' = loops
                    /\ node' = node]_vars

C13_Witness ==
  \E n \in Nodes :
    /\ launch[n].running
    /\ launch[n].errs > 0
    /\ launch[n].pc = "returned"
    /\ launch[n].discovery = 1

\* C14: the discovery loop of a Launch is started only when every bootstrap
\* handshake attempt has finished, and a Launch that has started its attempts
\* returns nil whether they succeed or fail.
C14_DiscoveryAfterBootstrap ==
  /\ [](\A n \in Nodes :
          launch[n].discovery > 0
            => launch[n].pending = {} /\ launch[n].hello = {} /\ launch[n].pc = "returned")
  /\ \A n \in Nodes :
       [](launch[n].pc = "wait" => <>(launch[n].pc = "returned"))

\* Launch has returned nil and runs its discovery loop although the handshake
\* to its bootstrap address failed: no stream was opened to it
C14_Witness ==
  \E n \in Nodes :
    /\ launch[n].pc = "returned"
    /\ launch[n].discovery = 1
    /\ \A b \in BootNodes(n) :
         /\ PeerAddrs(node[n], b) = {}
         /\ \A s \in 1..Len(net) : net[s].to # b

\* entry p of table is among the maxSyncNodes entries nearest to target
AmongNearest(table, target, p) ==
  /\ p \in table
  /\ Cardinality({q \in table : Dist(q, target) < Dist(p, target)}) < maxSyncNodes

\* this step is case SYNCROUTE on endpoint d of stream s, by a loop that found
\* the requester's send handle and wrote its reply on it to a running node
SyncReplied(s, d) ==
  /\ RecvSyncRoute(s, d)
  /\ Remote(net, s, d) \in live
  /\ WriteOK(net, node[Owner(net, s, d)].stream[AddrOf(Remote(net, s, d))])

\* the peer-info list of the reply that step wrote
SyncReply(s, d) ==
  LET n == Owner(net, s, d)
      h == node[n].stream[AddrOf(Remote(net, s, d))]
      q == net'[h].q[Other(SideOf(net, h, n))]
  IN JsonDecode(q[Len(q)].data)

\* C15 (as claimed): the SYNCROUTEREPLY to a SYNCROUTE of peer B lists only
\* entries among the maxSyncNodes nearest to B, none of them without a known
\* address, and exactly maxSyncNodes entries when the table holds that many;
\* after the reply B is in the responder's route table.
C15_ReplyHoldsMaxSyncNodes ==
  [][\A s \in StreamIds, d \in Sides :
       SyncReplied(s, d) =>
         LET n == Owner(net, s, d)
             B == Remote(net, s, d)
             table == node[n].routeTable
             reply == SyncReply(s, d)
         IN /\ \A i \in 1..Len(reply) : AmongNearest(table, B, reply[i].ID)
            /\ \A i \in 1..Len(reply) : PeerAddrs(node[n], reply[i].ID) # {}
            /\ Cardinality(table) >= maxSyncNodes => Len(reply) = maxSyncNodes
            /\ B \in node'[n].routeTable]_vars

\* C15 (amended): the reply lists, once each, exactly those of the maxSyncNodes
\* entries nearest to B that have a known address: maxSyncNodes entries when
\* the table holds that many and each of the nearest has an address, fewer
\* otherwise; after the reply B is in the responder's route table.
C15_ReplyHoldsNearestWithAddress ==
  [][\A s \in StreamIds, d \in Sides :
       SyncReplied(s, d) =>
         LET n == Owner(net, s, d)
             B == Remote(net, s, d)
             table == node[n].routeTable
             reply == SyncReply(s, d)
         IN /\ {reply[i].ID : i \in 1..Len(reply)}
                 = {p \in table : AmongNearest(table, B, p) /\ PeerAddrs(node[n], p) # {}}
            /\ \A i, j \in 1..Len(reply) : reply[i].ID = reply[j].ID => i = j
            /\ \A i \in 1..Len(reply) : Len(reply[i].Addrs) > 0
            /\ Len(reply) <= maxSyncNodes
            /\ B \in node'[n].routeTable]_vars

\* a reply is in flight that leaves out an entry of the route table farther
\* from the requester, and one that leaves out the nearest for want of an address
C15_Witness ==
  \E s \in 1..Len(net), d \in Sides :
    /\ net[s].q[d] # <<>>
    /\ Head(net[s].q[d]).msgName = SYNCROUTEREPLY
    /\ LET n == Remote(net, s, d)
           reply == JsonDecode(Head(net[s].q[d]).data)
       IN /\ n \in live
          /\ Cardinality(node[n].routeTable) > maxSyncNodes
          /\ \/ Len(reply) = maxSyncNodes
             \/ /\ reply = <<>>
                /\ PeerAddrs(node[n], Owner(net, s, d)) = {}

\* the candidate a loop at its SYNCROUTEREPLY list is about to handle is one the
\* code skips: it is in the route table already, or it comes without address
SkippedCandidate(s, d) ==
  LET c == Head(loops[s][d].todo) IN
  \/ c.ID \in node[Owner(net, s, d)].routeTable
  \/ Len(c.Addrs) = 0

\* C16: while a SYNCROUTEREPLY is processed, for a listed candidate that is in
\* the route table already, or that has no address, no handshake is attempted
\* (no stream is opened, no frame written), no address-book entry is written
\* and the route table is not updated.
C16_KnownCandidateIsSkipped ==
  [][\A s \in StreamIds, d \in Sides, o \in {"fail", "ok", "reset"} :
       (LoopAt(s, d, "reply") /\ SkippedCandidate(s, d) /\ ReplyStep(s, d, o))
         => /\ net' = net
            /\ node' = node
            /\ loops'[s][d].todo = Tail(loops[s][d].todo)]_vars

\* a loop of A has passed the first candidate of a SYNCROUTEREPLY, B or C, and
\* stands at the second one: both are in A's route table, B with its address
\* (a handled candidate would have left a stream opened by A, or lost its
\* address), and no stream was opened by A
C16_Witness ==
  \E s \in 1..Len(net), d \in Sides :
    /\ Owner(net, s, d) = "A"
    /\ loops[s][d].pc = "reply"
    /\ Len(loops[s][d].todo) = 1
    /\ node["A"].routeTable = {"B", "C"}
    /\ PeerAddrs(node["A"], "B") # {}
    /\ \A x \in 1..Len(net) : net[x].from # "A"

\* the frame followed through the codec was read, on any receiver, with the
\* header fields of its input, and on a receiver of the sender's chain id and
\* version it passed verifyHeader and the payload checksum and gave its payload
RoundTrip ==
  /\ wire.read.chainID = wire.chainID
  /\ wire.read.version = wire.version
  /\ wire.read.msgName = wire.msgName
  /\ (wire.cfgChainID = wire.chainID /\ wire.cfgVersion = wire.version)
       => wire.read.end = "ok" /\ wire.read.data = wire.data

\* C17 (as claimed): for every chain id, version, message name of at most 11
\* characters and payload, reading the frame buildData produced gives back the
\* same chain id, version, message name and payload bytes, and the frame passes
\* header validation and the payload checksum on a receiver of the same chain id
\* and version.
C17_RoundTripOfAnyName ==
  (wire.pc = "read" /\ Len(wire.msgName) <= 11) => RoundTrip

\* C17 (amended): the same for every message name of at most 11 bytes none of
\* which is a zero byte.
C17_RoundTripOfNameWithoutZero ==
  (wire.pc = "read" /\ Len(wire.msgName) <= 11
     /\ \A i \in 1..Len(wire.msgName) : wire.msgName[i] # 0) => RoundTrip

\* a frame with a name of 11 bytes and a payload was read back whole by a
\* receiver of the sender's configuration
C17_Witness ==
  /\ wire.pc = "read"
  /\ Len(wire.msgName) = 11
  /\ \A i \in 1..11 : wire.msgName[i] # 0
  /\ Len(wire.data) = MaxBytes
  /\ wire.chainID = 16909060
  /\ wire.read.end = "ok"
  /\ wire.read.data = wire.data

\* C18: a Hello call to a peer that accepts the connection and never sends any
\* reply returns to its caller: every Hello a bootstrap goroutine of Launch has
\* entered is left again, whatever the peer does or does not send.
C18_HelloReturns ==
  \A n \in Nodes, b \in Peers :
    [](b \in launch[n].hello => <>(b \notin launch[n].hello))

\* the Hello to bootstrap peer b has returned, its stream is open with HELLO
\* written on it, and the peer has sent nothing at all
C18_Witness ==
  \E n \in Nodes, b \in Peers :
    /\ launch[n].running
    /\ b \in BootNodes(n) \ (launch[n].pending \cup launch[n].hello)
    /\ envEvents = 0
    /\ node[n].conn[AddrOf(b)] # S_OK
    /\ \E s \in 1..Len(net) :
         /\ net[s].from = n /\ net[s].to = b /\ net[s].open
         /\ loops[s]["o"].pc \in {"select", "read"}

\* C19 (as claimed): after the disconnect action has run for an address no send
\* handle remains registered for it: in every reachable state an address whose
\* status is Disconnected has no entry in node.stream.
C19_DisconnectedHasNoHandle ==
  \A n \in Nodes, a \in Addrs :
    node[n].conn[a] = S_NC => node[n].stream[a] = NoStream

\* C20 (as claimed): a message is handed to the Dispatcher only for a NEWBLOCK
\* frame whose payload decoded as a block: a NEWBLOCK frame whose payload fails
\* to decode never results in a PutMessage call.
C20_OnlyDecodedBlocksDispatched ==
  \A n \in Nodes : \A m \in dispatcher[n].msgs : m.name = NEWBLOCK /\ m.decoded

\* the frame at the head of the input of loop x passed verifyHeader, its payload
\* was read in full, and the checksum over the payload is not the one its
\* header carries
ChecksumFails(x) ==
  LET f == Head(net[x[1]].q[x[2]]) IN
  /\ x[1] <= Len(net)
  /\ Owner(net, x[1], x[2]) \in live
  /\ LoopPc(x) = "read"
  /\ net[x[1]].q[x[2]] # <<>>
  /\ verifyHeader(Owner(net, x[1], x[2]), f.magic, f.chainID, f.version)
  /\ ~f.short
  /\ ChecksumIEEE(f.data) # f.dataChecksum

\* C21: for a received frame whose payload checksum is not the one carried in
\* its header no protocol handler runs: the step of the loop that read it
\* changes no session, route-table or dispatcher state, writes no frame, and
\* ends the loop.
C21_ChecksumGatesHandlers ==
  [][\A x \in LoopIds :
       (ChecksumFails(x) /\ loops'[x[1]][x[2]] # loops[x[1]][x[2]])
         => /\ node' = node
            /\ dispatcher' = dispatcher
            /\ net' = Pop(net, x[1], x[2])
            /\ loops'[x[1]][x[2]].pc = "done"
            /\ loops'[x[1]][x[2]].exit = "checksum"
            /\ \A y \in LoopIds \ {x} : loops'[y[1]][y[2]] = loops[y[1]][y[2]]]_vars

\* the loop of a registered session has ended on a frame of wrong checksum: the
\* peer is Connected and in the route table as before, nothing was dispatched
C21_Witness ==
  \E x \in LoopIds :
    /\ x[1] <= Len(net)
    /\ Owner(net, x[1], x[2]) \in live
    /\ LoopPc(x) = "done"
    /\ loops[x[1]][x[2]].exit = "checksum"
    /\ LET n == Owner(net, x[1], x[2])
           p == Remote(net, x[1], x[2])
       IN /\ node[n].conn[AddrOf(p)] = S_OK
          /\ node[n].stream[AddrOf(p)] = x[1]
          /\ p \in node[n].routeTable
          /\ dispatcher[n].msgs = {}

\* C22 (as claimed): Stop returns to its caller from every reachable state, also
\* when no receive loop is running and when every running loop is blocked in
\* its read or in a send on quitCh.
C22_StopReturns ==
  \A n \in Nodes : [](stopPc[n] = "sending" => <>(stopPc[n] = "returned"))

====
